---------------------------- MODULE Spec2Model ----------------------------
(***************************************************************************)
(* Elapsed-time and duration bookkeeping of the voice-memo recorder:       *)
(*   - the recorder hook (useRecorder) and the recording screen's stop     *)
(*     handler,                                                            *)
(*   - the web player hook (usePlayer on an HTMLAudioElement),             *)
(*   - the native player hook (usePlayer on an expo-av Sound),             *)
(*   - the time formatters.                                                *)
(* Each part has its own specification over the shared variable list; the  *)
(* variables of the other parts stay at their initial values.              *)
(*                                                                         *)
(* React state is modelled as the hook keeps it: a setState call changes   *)
(* the state variable at once, while the callbacks handed to the UI keep   *)
(* the values they closed over until the next render (action Render).      *)
(***************************************************************************)
EXTENDS Integers, Sequences, FiniteSets, TLC

VARIABLES
    \* ---- wall clock
    now,                 \* Date.now()
    \* ---- useRecorder: React state
    isRecording, isPaused, recordPosition, recError,
    \* ---- useRecorder: values the current callbacks closed over
    cIsRecording, cIsPaused,
    \* ---- useRecorder: refs
    recordingRef, startTimeRef, pausedTimeRef, totalPausedTimeRef, intervalRef,
    \* ---- startRecorder / handleStopRecording calls in flight
    startPending, stopPending,
    \* ---- handleStopRecording: const recordedDurationMs of the latest call
    recordedDurationMs,
    \* ---- observation of the recorder run (not program state)
    runMs,               \* wall-clock time spent Running since the session began
    elapsedAtPause,      \* elapsed value when the current pause began
    staleCalls,          \* handler runs, this session, on a closure that differed from the state
    runAtStop,           \* runMs when the latest stop read the clock
    stopFrom,            \* state the latest stop read the clock in: "none" |
                         \* "running" | "paused" | "stale" (stale callbacks took part)
    thrown,              \* the latest operation raised / rejected to its caller
    afterReset,          \* no startRecorder call was made or has ended since
                         \* the last reset (or since construction)
    \* ---- useRecorder: the result reference (resultUriRef / resultPathRef)
    resultRef,           \* it holds the URI / blob URL of a finished recording
    \* ---- useRecorder on the web: the MediaRecorder behind mediaRecorderRef
    mrState,             \* its state: "inactive" | "recording" | "paused"
    stopEvt,             \* its queued stop event: "none" | "reset" (only onstop
                         \* will run) | "hook" (stopRecorder's listener too)
    \* ---- the web Recording screen's handleStopRecording
    stopResolving,       \* stopRecorder promises whose listener has run and
                         \* whose 100 ms timeout has not yet resolved them
    saved,               \* recordings the handler has saved since the session
                         \* began
    \* ---- the recording being played
    platform,            \* "web" (HTMLAudioElement) | "native" (expo-av Sound)
    clipLen,             \* real length of the audio, ms
    clipMetaFinite,      \* the decoder reports the length (FALSE: Infinity, WebM)
    maxDurationMsRef,    \* stored recording.duration * 1000; 0 when missing
    durationUpdated,     \* the screen has written a detected duration back
    \* ---- usePlayer: React state
    isPlaying, durationMs, playPosition,
    \* ---- the audio element / sound
    audioLoaded,         \* audioRef.current / soundRef.current holds loaded media
    audioPaused, audioEnded, audioTime,
    metaLoaded,          \* the element knows its duration
    metaPending,         \* a loadedmetadata event is queued
    endedPending,        \* an ended / didJustFinish event is queued
    \* ---- native only
    cbDur,               \* durationMs closed over by the sound's status callback
    inflight,            \* handleEnded() calls that are awaiting the sound
    \* ---- observation of the player run (not program state)
    endCalls,            \* onPlaybackEnd invocations in the current playback run
    report,              \* what the last step did to position / duration
    authAccepted,        \* an authoritative duration has been accepted
    durSource,           \* who set durationMs last: "none" (never set) | "live" |
                         \* "meta" | "eos" | "reset" (zeroed by bad metadata)
    \* ---- the time formatters
    fmtInput,            \* the number of milliseconds handed to a formatter
    fmtName,             \* the formatter applied to it, "none" before any
    fmtOutput,           \* the string it returned
    \* ---- useAudioRecorder: React state and the callbacks' closure
    arIsRecording, arIsPaused, arCIsRecording, arCIsPaused,
    recordingTime,       \* seconds counted by the timer
    \* ---- useAudioRecorder: the timer
    timerRef,            \* timerRef.current holds an interval
    timers,              \* intervals scheduled by startTimer and not cleared
    arMounted,           \* the component using the hook is mounted
    arStartPending,      \* startRecording calls awaiting getUserMedia
    arMrState,           \* state of its MediaRecorder
    arStopEvt,           \* queued stop event of its MediaRecorder
    \* ---- the store: the recordings list and the storage behind it
    recordings,          \* the store's in-memory list (ids, newest first)
    isLoading,
    persisted,           \* the list under STORAGE_KEY (ids)
    issued,              \* ids handed out so far (ids are creation times)
    loadPc, loadSnap,    \* loadRecordingsFromStorage in flight and what it read
    savePc, saveId, saveSnap,  \* the stop handler's saveRecording + addRecording
    writes,              \* saveRecordings payloads fired and not yet stored
    delPc, delId, delSnap,     \* deleteRecording in flight
    \* ---- observation of the store (not program state)
    added,               \* ids handed to addRecording
    deleted,             \* ids whose deleteRecording resolved
    deleteCalled,        \* ids deleteRecording was called for
    deleteError,         \* the last settled deleteRecording threw
    \* ---- the store's control callbacks (0 = undefined, else the render
    \*      whose handlers are registered)
    onRecordingPauseResume, onRecordingStop,
    onPlaybackPlayPause, onPlaybackStop,
    recHandlers,         \* render of the mounted Recording screen, 0 unmounted
    recEffect,           \* render its registration effect last ran for
    playHandlers,        \* the same for the Playback screen
    playEffect

recVars == <<now, isRecording, isPaused, recordPosition, recError,
             cIsRecording, cIsPaused,
             recordingRef, startTimeRef, pausedTimeRef, totalPausedTimeRef,
             intervalRef, startPending, stopPending, recordedDurationMs,
             runMs, elapsedAtPause, staleCalls, runAtStop, stopFrom,
             thrown, afterReset, resultRef, mrState, stopEvt,
             stopResolving, saved>>

\* the MediaRecorder of the web hook and the web screen's stop handler
webVars == <<mrState, stopEvt, stopResolving, saved>>

clipVars == <<platform, clipLen, clipMetaFinite>>

playVars == <<clipVars, maxDurationMsRef, durationUpdated,
              isPlaying, durationMs, playPosition,
              audioLoaded, audioPaused, audioEnded, audioTime,
              metaLoaded, metaPending, endedPending, cbDur, inflight,
              endCalls, report, authAccepted, durSource>>

fmtVars == <<fmtInput, fmtName, fmtOutput>>

\* useAudioRecorder
arVars == <<arIsRecording, arIsPaused, arCIsRecording, arCIsPaused,
            recordingTime, timerRef, timers, arMounted, arStartPending,
            arMrState, arStopEvt>>

\* the recordings list of the store and its storage
storeVars == <<recordings, isLoading, persisted, issued, loadPc, loadSnap,
               savePc, saveId, saveSnap, writes, delPc, delId, delSnap,
               added, deleted, deleteCalled, deleteError>>

\* the control callbacks of the store and the two screens registering them
cbVars == <<onRecordingPauseResume, onRecordingStop,
            onPlaybackPlayPause, onPlaybackStop,
            recHandlers, recEffect, playHandlers, playEffect>>

appVars == <<storeVars, cbVars>>

vars == <<recVars, playVars, fmtVars, arVars, appVars>>

----------------------------------------------------------------------------
(* Bounds *)

\* The clock runs from 1 to MaxNow.
MaxNow == 3
\* The clock advances by 1..MaxStep between two steps of the program.
MaxStep == 2
\* startRecorder calls awaiting permission / createAsync at the same time.
MaxPendingStarts == 1
\* handleStopRecording calls awaiting stopAndUnloadAsync at the same time.
MaxPendingStops == 1
\* Handler runs per session on callbacks of an earlier render (a double tap
\* that arrives before the re-render).
MaxStaleCalls == 1
\* Clips are TimeUnit .. MaxLenUnits * TimeUnit ms long, in steps of TimeUnit.
MaxLenUnits == 9
\* The audio position moves by 1..MaxAudioStep units between two events.
MaxAudioStep == 2
\* Granularity of the audio clock, ms (coarser than the guard's buffer, so a
\* clip is never shorter than the buffer).
TimeUnit == 150
\* handleEnded() calls of the native hook that may be awaiting at once.
MaxInflight == 2
\* Formatter inputs cover every second 0..MaxFmtSec besides the field borders.
MaxFmtSec == 2
\* Stored durations are 0 (missing) or 1..MaxStoredSec whole seconds.
MaxStoredSec == 1
\* The stop handler is invoked only while the session has saved fewer than
\* MaxSaved recordings.
MaxSaved == 2
\* One step of the recorder's clock stands for ClockUnitMs milliseconds.
ClockUnitMs == 1100
\* useAudioRecorder: startRecording calls that may await getUserMedia at once.
MaxArPendingStarts == 1
\* useAudioRecorder: intervals that may be scheduled at once.
MaxTimers == 2
\* useAudioRecorder: the timer counts up to MaxRecordingTime seconds.
MaxRecordingTime == 3
\* recordings ever created, those of earlier runs included
MaxIds == 2
\* recordings an earlier run left in storage
MaxOldIds == 1
\* saveRecordings calls fired by the store and not yet stored
MaxWrites == 1
\* renders of a mounted screen that give its handlers a new identity
MaxRenders == 3

----------------------------------------------------------------------------
(* useRecorder *)

\* Date.now() - startTimeRef.current - totalPausedTimeRef.current
Elapsed == now - startTimeRef - totalPausedTimeRef

\* getFinalDuration, as the callback that closed over isRecording computes it
GetFinalDuration(closedIsRecording) ==
    IF ~closedIsRecording THEN 0 ELSE Elapsed

\* resumeRecorder: totalPausedTimeRef.current += Date.now() - pausedTimeRef.current
ResumedTotalPausedNoAdd(total, t, pausedAt) == total
ResumedTotalPausedSubtract(total, t, pausedAt) == total - (t - pausedAt)
ResumedTotalPaused(total, t, pausedAt) == total + (t - pausedAt)

\* A time span of the model's clock, in milliseconds.
Ms(span) == span * ClockUnitMs

\* handleStopRecording: let duration = Math.floor(recordedDurationMs / 1000),
\* the duration of the record it saves when that is not 0.
SavedDuration(ms) == ms \div 1000

\* The callbacks in use were created by a render that saw the current state.
ClosureFresh == cIsRecording = isRecording /\ cIsPaused = isPaused

\* 1 when the handler about to run uses callbacks of an earlier render.
StaleStep == IF ClosureFresh THEN 0 ELSE 1
StaleAllowed == ClosureFresh \/ staleCalls < MaxStaleCalls

RecInit ==
    /\ now = 1
    /\ isRecording = FALSE /\ isPaused = FALSE
    /\ recordPosition = 0 /\ recError = FALSE
    /\ cIsRecording = FALSE /\ cIsPaused = FALSE
    /\ recordingRef = FALSE
    /\ startTimeRef = 0 /\ pausedTimeRef = 0 /\ totalPausedTimeRef = 0
    /\ intervalRef = FALSE
    /\ startPending = 0 /\ stopPending = 0
    /\ recordedDurationMs = 0
    /\ runMs = 0 /\ elapsedAtPause = 0
    /\ staleCalls = 0 /\ runAtStop = 0 /\ stopFrom = "none"
    /\ thrown = FALSE /\ afterReset = TRUE /\ resultRef = FALSE
    /\ mrState = "inactive" /\ stopEvt = "none"
    /\ stopResolving = 0 /\ saved = 0

\* Real time passes.
Advance ==
    /\ UNCHANGED <<playVars, fmtVars, arVars, appVars>>
    /\ UNCHANGED <<thrown, afterReset, resultRef, webVars>>
    /\ \E d \in 1..MaxStep :
        /\ now + d <= MaxNow
        /\ now' = now + d
        /\ runMs' = IF isRecording /\ ~isPaused THEN runMs + d ELSE runMs
        /\ UNCHANGED <<isRecording, isPaused, recordPosition, recError,
                       cIsRecording, cIsPaused, recordingRef, startTimeRef,
                       pausedTimeRef, totalPausedTimeRef, intervalRef,
                       startPending, stopPending, recordedDurationMs,
                       elapsedAtPause, staleCalls, runAtStop, stopFrom>>

\* React re-renders: new callbacks close over the current state and the
\* tick effect re-runs (interval set iff isRecording && !isPaused).
Render ==
    /\ UNCHANGED <<playVars, fmtVars, arVars, appVars>>
    /\ UNCHANGED <<thrown, afterReset, resultRef, webVars>>
    /\ cIsRecording' = isRecording
    /\ cIsPaused' = isPaused
    /\ intervalRef' = (isRecording /\ ~isPaused)
    /\ UNCHANGED <<now, isRecording, isPaused, recordPosition, recError,
                   recordingRef, startTimeRef, pausedTimeRef,
                   totalPausedTimeRef, startPending, stopPending,
                   recordedDurationMs, runMs, elapsedAtPause, staleCalls,
                   runAtStop, stopFrom>>

\* The 100 ms interval callback.
Tick ==
    /\ UNCHANGED <<playVars, fmtVars, arVars, appVars>>
    /\ UNCHANGED <<thrown, afterReset, resultRef, webVars>>
    /\ intervalRef
    /\ recordPosition' = Elapsed
    /\ UNCHANGED <<now, isRecording, isPaused, recError, cIsRecording,
                   cIsPaused, recordingRef, startTimeRef, pausedTimeRef,
                   totalPausedTimeRef, intervalRef, startPending, stopPending,
                   recordedDurationMs, runMs, elapsedAtPause, staleCalls,
                   runAtStop, stopFrom>>

\* startRecorder up to its first await.
StartRecorder ==
    /\ UNCHANGED <<playVars, fmtVars, arVars, appVars>>
    /\ thrown' = FALSE
    /\ afterReset' = FALSE
    /\ UNCHANGED <<resultRef, webVars>>
    /\ startPending < MaxPendingStarts
    /\ startPending' = startPending + 1
    /\ recError' = FALSE
    /\ UNCHANGED <<now, isRecording, isPaused, recordPosition, cIsRecording,
                   cIsPaused, recordingRef, startTimeRef, pausedTimeRef,
                   totalPausedTimeRef, intervalRef, stopPending,
                   recordedDurationMs, runMs, elapsedAtPause, staleCalls,
                   runAtStop, stopFrom>>

\* startRecorder after permission was granted and the recording was created.
StartResolve ==
    /\ UNCHANGED <<playVars, fmtVars, arVars, appVars>>
    /\ afterReset' = FALSE
    /\ UNCHANGED <<thrown, resultRef, webVars>>
    /\ startPending > 0
    /\ startPending' = startPending - 1
    /\ recordingRef' = TRUE
    /\ startTimeRef' = now
    /\ totalPausedTimeRef' = 0
    /\ pausedTimeRef' = 0
    /\ isRecording' = TRUE
    /\ isPaused' = FALSE
    /\ runMs' = 0
    /\ elapsedAtPause' = 0
    /\ staleCalls' = 0
    /\ stopFrom' = "none"
    /\ runAtStop' = 0
    /\ recordedDurationMs' = 0
    /\ UNCHANGED <<now, recordPosition, recError, cIsRecording, cIsPaused,
                   intervalRef, stopPending>>

\* startRecorder's catch block: it records the error and rethrows it.
StartReject ==
    /\ UNCHANGED <<playVars, fmtVars, arVars, appVars>>
    /\ thrown' = TRUE
    /\ afterReset' = FALSE
    /\ UNCHANGED <<resultRef, webVars>>
    /\ startPending > 0
    /\ startPending' = startPending - 1
    /\ recError' = TRUE
    /\ isRecording' = FALSE
    /\ UNCHANGED <<now, isPaused, recordPosition, cIsRecording, cIsPaused,
                   recordingRef, startTimeRef, pausedTimeRef,
                   totalPausedTimeRef, intervalRef, stopPending,
                   recordedDurationMs, runMs, elapsedAtPause, staleCalls,
                   runAtStop, stopFrom>>

\* pauseRecorder, guarded by the values its callback closed over.
PauseRecorder ==
    /\ UNCHANGED <<playVars, fmtVars, arVars, appVars>>
    /\ UNCHANGED <<thrown, afterReset, resultRef, webVars>>
    /\ IF recordingRef /\ cIsRecording /\ ~cIsPaused
       THEN /\ StaleAllowed
            /\ pausedTimeRef' = now
            /\ isPaused' = TRUE
            /\ elapsedAtPause' = IF isRecording /\ ~isPaused
                                 THEN Elapsed ELSE elapsedAtPause
            /\ staleCalls' = staleCalls + StaleStep
       ELSE UNCHANGED <<pausedTimeRef, isPaused, elapsedAtPause, staleCalls>>
    /\ UNCHANGED <<now, isRecording, recordPosition, recError, cIsRecording,
                   cIsPaused, recordingRef, startTimeRef, totalPausedTimeRef,
                   intervalRef, startPending, stopPending, recordedDurationMs,
                   runMs, runAtStop, stopFrom>>

\* resumeRecorder, guarded by the values its callback closed over.
ResumeRecorder ==
    /\ UNCHANGED <<playVars, fmtVars, arVars, appVars>>
    /\ UNCHANGED <<thrown, afterReset, resultRef, webVars>>
    /\ IF recordingRef /\ cIsRecording /\ cIsPaused
       THEN /\ StaleAllowed
            /\ totalPausedTimeRef' =
                   ResumedTotalPaused(totalPausedTimeRef, now, pausedTimeRef)
            /\ pausedTimeRef' = 0
            /\ isPaused' = FALSE
            /\ staleCalls' = staleCalls + StaleStep
       ELSE UNCHANGED <<totalPausedTimeRef, pausedTimeRef, isPaused, staleCalls>>
    /\ UNCHANGED <<now, isRecording, recordPosition, recError, cIsRecording,
                   cIsPaused, recordingRef, startTimeRef, intervalRef,
                   startPending, stopPending, recordedDurationMs, runMs,
                   elapsedAtPause, runAtStop, stopFrom>>

\* resetRecorder's assignments.
ResetFields ==
    /\ recordingRef' = FALSE
    /\ isRecording' = FALSE
    /\ isPaused' = FALSE
    /\ recordPosition' = 0
    /\ recError' = FALSE
    /\ startTimeRef' = 0
    /\ pausedTimeRef' = 0
    /\ totalPausedTimeRef' = 0
    /\ intervalRef' = FALSE
    /\ resultRef' = FALSE

\* The session is over: its observations are dropped.
ForgetSession ==
    /\ runMs' = 0
    /\ elapsedAtPause' = 0
    /\ staleCalls' = 0
    /\ thrown' = FALSE
    /\ afterReset' = TRUE

\* resetRecorder called by the screen (delete / back).
ResetRecorder ==
    /\ UNCHANGED <<playVars, fmtVars, arVars, appVars>>
    /\ UNCHANGED webVars
    /\ ResetFields
    /\ ForgetSession
    /\ recordedDurationMs' = 0
    /\ runAtStop' = 0
    /\ stopFrom' = "none"
    /\ UNCHANGED <<now, cIsRecording, cIsPaused, startPending, stopPending>>

\* handleStopRecording up to the await inside stopRecorder:
\* early return when its closure says not recording; else it reads the final
\* duration, and stopRecorder either finds no recording (the handler's catch
\* block resets) or awaits stopAndUnloadAsync.
HandleStopRecording ==
    /\ UNCHANGED <<playVars, fmtVars, arVars, appVars>>
    /\ UNCHANGED webVars
    /\ stopPending < MaxPendingStops
    /\ IF ~cIsRecording
       THEN UNCHANGED <<recordedDurationMs, stopFrom, runAtStop, staleCalls,
                        thrown, afterReset, resultRef,
                        stopPending, recordingRef, isRecording, isPaused,
                        recordPosition, recError, startTimeRef, pausedTimeRef,
                        totalPausedTimeRef, intervalRef, runMs, elapsedAtPause>>
       ELSE /\ StaleAllowed
            /\ recordedDurationMs' = GetFinalDuration(cIsRecording)
            /\ stopFrom' = IF ~ClosureFresh \/ staleCalls > 0 THEN "stale"
                           ELSE IF isPaused THEN "paused" ELSE "running"
            /\ runAtStop' = runMs
            /\ IF recordingRef
               THEN /\ stopPending' = stopPending + 1
                    /\ staleCalls' = staleCalls + StaleStep
                    /\ UNCHANGED <<thrown, afterReset, resultRef>>
                    /\ UNCHANGED <<recordingRef, isRecording, isPaused,
                                   recordPosition, recError, startTimeRef,
                                   pausedTimeRef, totalPausedTimeRef,
                                   intervalRef, runMs, elapsedAtPause>>
               ELSE /\ ResetFields
                    /\ ForgetSession
                    /\ UNCHANGED stopPending
    /\ UNCHANGED <<now, cIsRecording, cIsPaused, startPending>>

\* stopAndUnloadAsync resolved: the rest of stopRecorder, then the handler's
\* resetRecorder().
StopResolve ==
    /\ UNCHANGED <<playVars, fmtVars, arVars, appVars>>
    /\ UNCHANGED webVars
    /\ stopPending > 0
    /\ stopPending' = stopPending - 1
    /\ ResetFields
    /\ ForgetSession
    /\ UNCHANGED <<now, cIsRecording, cIsPaused, startPending,
                   recordedDurationMs, runAtStop, stopFrom>>

RecNext ==
    \/ Advance
    \/ Render
    \/ Tick
    \/ StartRecorder
    \/ StartResolve
    \/ StartReject
    \/ PauseRecorder
    \/ ResumeRecorder
    \/ ResetRecorder
    \/ HandleStopRecording
    \/ StopResolve

----------------------------------------------------------------------------
(* useRecorder on the web: the same clock over a MediaRecorder.  stop() is    *)
(* asynchronous: it makes the recorder inactive and queues its stop event,    *)
(* whose handlers (onstop, and the listener stopRecorder added) run later.    *)
(* pause() and resume() raise InvalidStateError on an inactive recorder;      *)
(* stop() on an inactive recorder does nothing.  A new recorder is created    *)
(* only after the stop event of the previous one was delivered.               *)

\* handleStop: if (intervalRef.current) { clearInterval(...); intervalRef.current = null }
HandleStopIntervalKept(interval) == interval
HandleStopInterval(interval) == FALSE

\* startRecorder after getUserMedia resolved and the MediaRecorder started.
WebStartResolve ==
    /\ UNCHANGED <<playVars, fmtVars, arVars, appVars>>
    /\ startPending > 0
    /\ stopEvt = "none"
    /\ startPending' = startPending - 1
    /\ recordingRef' = TRUE
    /\ mrState' = "recording"
    /\ startTimeRef' = now
    /\ totalPausedTimeRef' = 0
    /\ pausedTimeRef' = 0
    /\ isRecording' = TRUE
    /\ isPaused' = FALSE
    /\ recordPosition' = 0
    /\ runMs' = 0
    /\ elapsedAtPause' = 0
    /\ staleCalls' = 0
    /\ stopFrom' = "none"
    /\ runAtStop' = 0
    /\ afterReset' = FALSE
    /\ saved' = 0
    /\ UNCHANGED <<now, recError, cIsRecording, cIsPaused, intervalRef,
                   stopPending, recordedDurationMs, thrown, resultRef,
                   stopEvt, stopResolving>>

\* startRecorder's catch block: it records the error and returns null.
WebStartReject ==
    /\ UNCHANGED <<playVars, fmtVars, arVars, appVars>>
    /\ startPending > 0
    /\ startPending' = startPending - 1
    /\ recError' = TRUE
    /\ afterReset' = FALSE
    /\ UNCHANGED <<now, isRecording, isPaused, recordPosition, cIsRecording,
                   cIsPaused, recordingRef, startTimeRef, pausedTimeRef,
                   totalPausedTimeRef, intervalRef, stopPending,
                   recordedDurationMs, runMs, elapsedAtPause, staleCalls,
                   runAtStop, stopFrom, thrown, resultRef, webVars>>

\* pauseRecorder, guarded by the values its callback closed over.
WebPauseRecorder ==
    /\ UNCHANGED <<playVars, fmtVars, arVars, appVars>>
    /\ IF recordingRef /\ cIsRecording /\ ~cIsPaused
       THEN /\ StaleAllowed
            /\ staleCalls' = staleCalls + StaleStep
            /\ IF mrState = "inactive"
               THEN /\ thrown' = TRUE
                    /\ UNCHANGED <<mrState, pausedTimeRef, isPaused,
                                   intervalRef, elapsedAtPause>>
               ELSE /\ mrState' = "paused"
                    /\ pausedTimeRef' = now
                    /\ isPaused' = TRUE
                    /\ intervalRef' = FALSE
                    /\ elapsedAtPause' = IF isRecording /\ ~isPaused
                                         THEN Elapsed ELSE elapsedAtPause
                    /\ UNCHANGED thrown
       ELSE UNCHANGED <<staleCalls, thrown, mrState, pausedTimeRef, isPaused,
                        intervalRef, elapsedAtPause>>
    /\ UNCHANGED <<now, isRecording, recordPosition, recError, cIsRecording,
                   cIsPaused, recordingRef, startTimeRef, totalPausedTimeRef,
                   startPending, stopPending, recordedDurationMs, runMs,
                   runAtStop, stopFrom, afterReset, resultRef, stopEvt,
                   stopResolving, saved>>

\* resumeRecorder, guarded by the values its callback closed over.
WebResumeRecorder ==
    /\ UNCHANGED <<playVars, fmtVars, arVars, appVars>>
    /\ IF recordingRef /\ cIsRecording /\ cIsPaused
       THEN /\ StaleAllowed
            /\ staleCalls' = staleCalls + StaleStep
            /\ IF mrState = "inactive"
               THEN /\ thrown' = TRUE
                    /\ UNCHANGED <<mrState, totalPausedTimeRef, pausedTimeRef,
                                   isPaused>>
               ELSE /\ mrState' = "recording"
                    /\ totalPausedTimeRef' =
                          ResumedTotalPaused(totalPausedTimeRef, now,
                                             pausedTimeRef)
                    /\ pausedTimeRef' = 0
                    /\ isPaused' = FALSE
                    /\ UNCHANGED thrown
       ELSE UNCHANGED <<staleCalls, thrown, mrState, totalPausedTimeRef,
                        pausedTimeRef, isPaused>>
    /\ UNCHANGED <<now, isRecording, recordPosition, recError, cIsRecording,
                   cIsPaused, recordingRef, startTimeRef, intervalRef,
                   startPending, stopPending, recordedDurationMs, runMs,
                   elapsedAtPause, runAtStop, stopFrom, afterReset, resultRef,
                   stopEvt, stopResolving, saved>>

\* stopRecorder: with a recorder and a closure that says recording it adds
\* its stop listener and calls stop(); else it returns the result reference.
WebStopRecorder ==
    /\ UNCHANGED <<playVars, fmtVars, arVars, appVars>>
    /\ IF recordingRef /\ cIsRecording
       THEN /\ StaleAllowed
            /\ staleCalls' = staleCalls + StaleStep
            /\ IF mrState # "inactive"
               THEN /\ mrState' = "inactive"
                    /\ stopEvt' = "hook"
                    /\ stopFrom' = IF ~ClosureFresh \/ staleCalls > 0
                                   THEN "stale"
                                   ELSE IF isPaused THEN "paused"
                                   ELSE "running"
                    /\ runAtStop' = runMs
               ELSE UNCHANGED <<mrState, stopEvt, stopFrom, runAtStop>>
       ELSE UNCHANGED <<staleCalls, mrState, stopEvt, stopFrom, runAtStop>>
    /\ UNCHANGED <<now, isRecording, isPaused, recordPosition, recError,
                   cIsRecording, cIsPaused, recordingRef, startTimeRef,
                   pausedTimeRef, totalPausedTimeRef, intervalRef,
                   startPending, stopPending, recordedDurationMs, runMs,
                   elapsedAtPause, thrown, afterReset, resultRef,
                   stopResolving, saved>>

\* The recorder's stop event: onstop stores the blob URL in resultPathRef;
\* every handleStop that stopRecorder added clears the flags and the interval
\* and sets its 100 ms timeout.
WebStopEvent ==
    /\ UNCHANGED <<playVars, fmtVars, arVars, appVars>>
    /\ stopEvt # "none"
    /\ stopEvt' = "none"
    /\ resultRef' = TRUE
    /\ IF stopEvt = "hook"
       THEN /\ isRecording' = FALSE
            /\ isPaused' = FALSE
            /\ intervalRef' = HandleStopInterval(intervalRef)
            /\ stopResolving' = stopResolving + stopPending
            /\ stopPending' = 0
       ELSE UNCHANGED <<isRecording, isPaused, intervalRef, stopResolving,
                        stopPending>>
    /\ UNCHANGED <<now, recordPosition, recError, cIsRecording, cIsPaused,
                   recordingRef, startTimeRef, pausedTimeRef,
                   totalPausedTimeRef, startPending,
                   recordedDurationMs, runMs, elapsedAtPause, staleCalls,
                   runAtStop, stopFrom, thrown, afterReset, mrState, saved>>

\* resetRecorder: stops the recorder if its closure says recording, then
\* clears every field.
WebResetRecorder ==
    /\ UNCHANGED <<playVars, fmtVars, arVars, appVars>>
    /\ IF recordingRef /\ cIsRecording /\ mrState # "inactive"
       THEN mrState' = "inactive" /\ stopEvt' = "reset"
       ELSE UNCHANGED <<mrState, stopEvt>>
    /\ UNCHANGED <<stopResolving, saved>>
    /\ ResetFields
    /\ ForgetSession
    /\ recordedDurationMs' = 0
    /\ runAtStop' = 0
    /\ stopFrom' = "none"
    /\ UNCHANGED <<now, cIsRecording, cIsPaused, startPending, stopPending>>

WebRecNext ==
    \/ Advance
    \/ Render
    \/ Tick
    \/ StartRecorder
    \/ WebStartResolve
    \/ WebStartReject
    \/ WebPauseRecorder
    \/ WebResumeRecorder
    \/ WebStopRecorder
    \/ WebStopEvent
    \/ WebResetRecorder

----------------------------------------------------------------------------
(* The web Recording screen's stop handler on top of the hook *)

\* handleStopRecording of the web screen up to the await of stopRecorder.
\* With a recorder and a closure that says recording, stopRecorder adds its
\* stop listener and calls stop(); the listener counts only if a stop event
\* is still to come.  Else it returns the result reference at once, and with
\* a result the handler goes on to save a recording.
WebHandleStopRecording ==
    /\ UNCHANGED <<playVars, fmtVars, arVars, appVars>>
    /\ saved < MaxSaved
    /\ IF recordingRef /\ cIsRecording
       THEN /\ StaleAllowed
            /\ staleCalls' = staleCalls + StaleStep
            /\ IF mrState # "inactive"
               THEN /\ stopPending + stopResolving < MaxPendingStops
                    /\ stopPending' = stopPending + 1
                    /\ mrState' = "inactive"
                    /\ stopEvt' = "hook"
                    /\ stopFrom' = IF ~ClosureFresh \/ staleCalls > 0
                                   THEN "stale"
                                   ELSE IF isPaused THEN "paused"
                                   ELSE "running"
                    /\ runAtStop' = runMs
               ELSE IF stopEvt = "hook"
               THEN /\ stopPending + stopResolving < MaxPendingStops
                    /\ stopPending' = stopPending + 1
                    /\ UNCHANGED <<mrState, stopEvt, stopFrom, runAtStop>>
               ELSE UNCHANGED <<stopPending, mrState, stopEvt, stopFrom,
                                runAtStop>>
            /\ UNCHANGED saved
       ELSE /\ saved' = IF resultRef THEN saved + 1 ELSE saved
            /\ UNCHANGED <<staleCalls, stopPending, mrState, stopEvt,
                           stopFrom, runAtStop>>
    /\ UNCHANGED <<now, isRecording, isPaused, recordPosition, recError,
                   cIsRecording, cIsPaused, recordingRef, startTimeRef,
                   pausedTimeRef, totalPausedTimeRef, intervalRef,
                   startPending, recordedDurationMs, runMs,
                   elapsedAtPause, thrown, afterReset, resultRef,
                   stopResolving>>

\* The timeout of a handleStop runs: resolve(resultPathRef.current).  The
\* stop handler that awaited it throws on null, else goes on to save a
\* recording.
WebStopResolved ==
    /\ UNCHANGED <<playVars, fmtVars, arVars, appVars>>
    /\ stopResolving > 0
    /\ stopResolving' = stopResolving - 1
    /\ saved' = IF resultRef THEN saved + 1 ELSE saved
    /\ UNCHANGED <<now, isRecording, isPaused, recordPosition, recError,
                   cIsRecording, cIsPaused, recordingRef, startTimeRef,
                   pausedTimeRef, totalPausedTimeRef, intervalRef,
                   startPending, stopPending, recordedDurationMs, runMs,
                   elapsedAtPause, staleCalls, runAtStop, stopFrom, thrown,
                   afterReset, resultRef, mrState, stopEvt>>

WebStopNext ==
    \/ Render
    \/ StartRecorder
    \/ WebStartResolve
    \/ WebStartReject
    \/ WebPauseRecorder
    \/ WebHandleStopRecording
    \/ WebStopEvent
    \/ WebStopResolved
    \/ WebResetRecorder

----------------------------------------------------------------------------
(* Numbers as JavaScript has them: finite, NaN or Infinity *)

Fin(n) == [k |-> "fin", v |-> n]
NaN == [k |-> "nan", v |-> 0]
PosInf == [k |-> "inf", v |-> 0]
NegInf == [k |-> "ninf", v |-> 0]

\* isFinite(x)
IsFinite(x) == x.k = "fin"
\* x > 0
IsPositive(x) == (x.k = "fin" /\ x.v > 0) \/ x.k = "inf"

----------------------------------------------------------------------------
(* usePlayer: what the web hook and the native hook share *)

\* 100ms buffer of the near-end guard
EndBufferMs == 100
\* the live estimate: Math.floor((currentTime + 1) * 1000)
EstimatePadMs == 1000
\* the screen writes a detected duration back only if durationMs > 1000
SubstantialMs == 1000

NoReport == [src |-> "none", pos |-> 0]

\* maxDuration of handleTimeUpdate / updateStatus: the stored duration, else
\* the hook's durationMs, else the duration the media reports, else Infinity.
MaxDuration(mediaDuration) ==
    IF maxDurationMsRef > 0 THEN Fin(maxDurationMsRef)
    ELSE IF durationMs > 0 THEN Fin(durationMs)
    ELSE IF IsPositive(mediaDuration) /\ IsFinite(mediaDuration)
         THEN mediaDuration
         ELSE PosInf

\* maxDuration > 0 && isFinite(maxDuration) && current >= maxDuration - 100
NearEndNoBuffer(maxDuration, current) ==
    /\ IsPositive(maxDuration) /\ IsFinite(maxDuration)
    /\ current >= maxDuration.v
NearEnd(maxDuration, current) ==
    /\ IsPositive(maxDuration) /\ IsFinite(maxDuration)
    /\ current >= maxDuration.v - EndBufferMs

\* handleEnded: the durationMs it leaves, given the durationMs it closed over
\* and the final position it read
EndedDurationKeep(current, closed, finalPosition) == current
EndedDuration(current, closed, finalPosition) ==
    IF closed = 0 /\ finalPosition > 0 THEN finalPosition ELSE current

\* The recordings a Playback screen can open.  A stored duration is a whole
\* number of seconds; the native decoder always reports the length of a local
\* file, the browser reports Infinity for some (MediaRecorder WebM).
PlayInit ==
    /\ platform \in {"web", "native"}
    /\ clipLen \in {TimeUnit * k : k \in 1..MaxLenUnits}
    /\ clipMetaFinite \in (IF platform = "web" THEN BOOLEAN ELSE {TRUE})
    /\ maxDurationMsRef \in {1000 * sec : sec \in 0..MaxStoredSec}
    /\ durationUpdated = FALSE
    /\ isPlaying = FALSE /\ durationMs = 0 /\ playPosition = 0
    /\ audioLoaded = FALSE /\ audioPaused = TRUE /\ audioEnded = FALSE
    /\ audioTime = 0
    /\ metaLoaded = FALSE /\ metaPending = FALSE /\ endedPending = FALSE
    /\ cbDur = 0 /\ inflight = <<>>
    /\ endCalls = 0 /\ report = NoReport
    /\ authAccepted = FALSE /\ durSource = "none"

\* The media plays on.  At the end of the clip it stops there and queues its
\* ended event (web) / its didJustFinish status (native).
AudioProgress ==
    /\ UNCHANGED <<recVars, fmtVars, arVars, appVars>>
    /\ audioLoaded /\ metaLoaded /\ ~audioPaused /\ ~audioEnded
    /\ \E d \in 1..MaxAudioStep :
          /\ audioTime' = IF audioTime + d * TimeUnit >= clipLen
                          THEN clipLen ELSE audioTime + d * TimeUnit
          /\ audioEnded' = (audioTime' = clipLen)
          /\ endedPending' = (audioTime' = clipLen)
    /\ report' = NoReport
    /\ UNCHANGED <<clipVars, maxDurationMsRef, durationUpdated, isPlaying,
                   durationMs, playPosition, audioLoaded, audioPaused,
                   metaLoaded, metaPending, cbDur, inflight, endCalls,
                   authAccepted, durSource>>

\* The Playback screen's effect that stores a detected duration for a
\* recording saved without one; the new value reaches the hook's ref.
MonitorStoredDuration ==
    /\ UNCHANGED <<recVars, fmtVars, arVars, appVars>>
    /\ ~durationUpdated /\ isPlaying
    /\ maxDurationMsRef = 0 /\ durationMs > SubstantialMs
    /\ maxDurationMsRef' = (durationMs \div 1000) * 1000
    /\ durationUpdated' = TRUE
    /\ report' = NoReport
    /\ UNCHANGED <<clipVars, isPlaying, durationMs, playPosition, audioLoaded,
                   audioPaused, audioEnded, audioTime, metaLoaded, metaPending,
                   endedPending, cbDur, inflight, endCalls, authAccepted,
                   durSource>>

----------------------------------------------------------------------------
(* usePlayer on the web: an HTMLAudioElement and its listeners.  The screen   *)
(* passes fresh callbacks on every render, so the effect re-registers the      *)
(* listeners after every render and they see the current durationMs.           *)

\* audio.duration
AudioDuration ==
    IF ~metaLoaded THEN NaN
    ELSE IF clipMetaFinite THEN Fin(clipLen) ELSE PosInf

\* handleLoadedMetadata: isFinite(rawDuration) && rawDuration > 0
ValidDuration(raw) == IsFinite(raw) /\ IsPositive(raw)

\* handleLoadedMetadata: the durationMs it sets
MetadataDuration(raw) == IF ValidDuration(raw) THEN raw.v ELSE 0

\* handleEnded at audio position finalPosition, reached from `from`.
HandleEnded(from, finalPosition) ==
    /\ durationMs' = EndedDuration(durationMs, durationMs, finalPosition)
    /\ report' = [src |-> from, pos |-> finalPosition]
    /\ durSource' = IF durationMs' # durationMs THEN "eos" ELSE durSource
    /\ authAccepted' = (authAccepted \/ durationMs' # durationMs)
    /\ audioPaused' = TRUE
    /\ audioTime' = 0
    /\ audioEnded' = FALSE
    /\ isPlaying' = FALSE
    /\ playPosition' = 0
    /\ endCalls' = endCalls + 1

\* startPlayer: sets audio.src, which reloads the media and drops the
\* element's queued events, and plays from the start.
StartPlayer ==
    /\ UNCHANGED <<recVars, fmtVars, arVars, appVars>>
    /\ platform = "web"
    /\ audioLoaded' = TRUE
    /\ audioTime' = 0
    /\ audioPaused' = FALSE
    /\ audioEnded' = FALSE
    /\ metaLoaded' = FALSE
    /\ metaPending' = TRUE
    /\ endedPending' = FALSE
    /\ isPlaying' = TRUE
    /\ endCalls' = 0
    /\ report' = NoReport
    /\ UNCHANGED <<clipVars, maxDurationMsRef, durationUpdated, durationMs,
                   playPosition, cbDur, inflight, authAccepted, durSource>>

\* The loadedmetadata listener.
HandleLoadedMetadata ==
    /\ UNCHANGED <<recVars, fmtVars, arVars, appVars>>
    /\ platform = "web"
    /\ metaPending
    /\ metaPending' = FALSE
    /\ metaLoaded' = TRUE
    /\ LET raw == IF clipMetaFinite THEN Fin(clipLen) ELSE PosInf IN
          /\ durationMs' = MetadataDuration(raw)
          /\ report' = [src |-> IF ValidDuration(raw) THEN "meta"
                                ELSE "badmeta",
                        pos |-> audioTime]
          /\ durSource' = IF ValidDuration(raw) THEN "meta"
                          ELSE IF durationMs' = durationMs THEN durSource
                          ELSE "reset"
          /\ authAccepted' = (authAccepted \/ ValidDuration(raw))
    /\ UNCHANGED <<clipVars, maxDurationMsRef, durationUpdated, isPlaying,
                   playPosition, audioLoaded, audioPaused, audioEnded,
                   audioTime, endedPending, cbDur, inflight, endCalls>>

\* The timeupdate listener.
HandleTimeUpdate ==
    /\ UNCHANGED <<recVars, fmtVars, arVars, appVars>>
    /\ platform = "web"
    /\ audioLoaded
    /\ IF audioPaused \/ audioEnded
       THEN /\ report' = NoReport
            /\ UNCHANGED <<isPlaying, durationMs, playPosition, audioPaused,
                           audioEnded, audioTime, endCalls, authAccepted,
                           durSource>>
       ELSE IF NearEnd(MaxDuration(AudioDuration), audioTime)
       THEN HandleEnded("guard", audioTime)
       ELSE /\ playPosition' = audioTime
            /\ IF durationMs = 0 /\ audioTime > 0
               THEN /\ durationMs' = audioTime + EstimatePadMs
                    /\ report' = [src |-> "live", pos |-> audioTime]
                    /\ durSource' = "live"
               ELSE /\ report' = [src |-> "publish", pos |-> audioTime]
                    /\ UNCHANGED <<durationMs, durSource>>
            /\ UNCHANGED <<isPlaying, audioPaused, audioEnded, audioTime,
                           endCalls, authAccepted>>
    /\ UNCHANGED <<clipVars, maxDurationMsRef, durationUpdated, audioLoaded,
                   metaLoaded, metaPending, endedPending, cbDur, inflight>>

\* The ended listener.
HandleEndedEvent ==
    /\ UNCHANGED <<recVars, fmtVars, arVars, appVars>>
    /\ platform = "web"
    /\ endedPending
    /\ endedPending' = FALSE
    /\ HandleEnded("ended", audioTime)
    /\ UNCHANGED <<clipVars, maxDurationMsRef, durationUpdated, audioLoaded,
                   metaLoaded, metaPending, cbDur, inflight>>

\* pausePlayer
PausePlayer ==
    /\ UNCHANGED <<recVars, fmtVars, arVars, appVars>>
    /\ platform = "web"
    /\ audioLoaded /\ isPlaying
    /\ audioPaused' = TRUE
    /\ isPlaying' = FALSE
    /\ report' = NoReport
    /\ UNCHANGED <<clipVars, maxDurationMsRef, durationUpdated, durationMs,
                   playPosition, audioLoaded, audioEnded, audioTime,
                   metaLoaded, metaPending, endedPending, cbDur, inflight,
                   endCalls, authAccepted, durSource>>

\* resumePlayer: audio.play() continues, or restarts an ended element.
ResumePlayer ==
    /\ UNCHANGED <<recVars, fmtVars, arVars, appVars>>
    /\ platform = "web"
    /\ audioLoaded /\ ~isPlaying
    /\ audioPaused' = FALSE
    /\ audioTime' = IF audioEnded THEN 0 ELSE audioTime
    /\ audioEnded' = FALSE
    /\ isPlaying' = TRUE
    /\ endCalls' = 0
    /\ report' = NoReport
    /\ UNCHANGED <<clipVars, maxDurationMsRef, durationUpdated, durationMs,
                   playPosition, audioLoaded, metaLoaded, metaPending,
                   endedPending, cbDur, inflight, authAccepted, durSource>>

\* stopPlayer (without an audio element it changes nothing)
StopPlayer ==
    /\ UNCHANGED <<recVars, fmtVars, arVars, appVars>>
    /\ platform = "web"
    /\ audioLoaded
    /\ audioPaused' = TRUE
    /\ audioTime' = 0
    /\ audioEnded' = FALSE
    /\ isPlaying' = FALSE
    /\ playPosition' = 0
    /\ report' = [src |-> "stop", pos |-> audioTime]
    /\ UNCHANGED <<clipVars, maxDurationMsRef, durationUpdated, durationMs,
                   audioLoaded, metaLoaded, metaPending, endedPending, cbDur,
                   inflight, endCalls, authAccepted, durSource>>

WebNext ==
    \/ StartPlayer
    \/ HandleLoadedMetadata
    \/ HandleTimeUpdate
    \/ HandleEndedEvent
    \/ PausePlayer
    \/ ResumePlayer
    \/ StopPlayer

----------------------------------------------------------------------------
(* usePlayer on native: an expo-av Sound, a 100 ms status poll, the sound's   *)
(* status callback, and an asynchronous handleEnded.  The poll is rebuilt      *)
(* after every render and sees the current durationMs; the status callback     *)
(* keeps the durationMs and the handleEnded of the render that started the     *)
(* sound.                                                                      *)

\* status.isPlaying
StatusIsPlaying == audioLoaded /\ ~audioPaused /\ ~audioEnded

RemoveAt(seq, i) == [j \in 1..(Len(seq) - 1) |-> IF j < i THEN seq[j] ELSE seq[j + 1]]

\* handleEnded() is called and starts to await getStatusAsync().
CallHandleEnded(closedDurationMs) ==
    Append(inflight, [stage |-> "status", cDur |-> closedDurationMs])

\* startPlayer: unloads the old sound, creates one that plays at once, and
\* takes the duration of its initial status.  A run is started when the end
\* handlers of the run before have settled.
NativeStartPlayer ==
    /\ UNCHANGED <<recVars, fmtVars, arVars, appVars>>
    /\ platform = "native"
    /\ inflight = <<>>
    /\ audioLoaded' = TRUE
    /\ audioTime' = 0
    /\ audioPaused' = FALSE
    /\ audioEnded' = FALSE
    /\ metaLoaded' = TRUE
    /\ endedPending' = FALSE
    /\ isPlaying' = TRUE
    /\ cbDur' = durationMs
    /\ durationMs' = IF clipLen # 0 THEN clipLen ELSE durationMs
    /\ durSource' = IF clipLen # 0 THEN "meta" ELSE durSource
    /\ authAccepted' = (authAccepted \/ clipLen # 0)
    /\ endCalls' = 0
    /\ report' = [src |-> "meta", pos |-> 0]
    /\ UNCHANGED <<clipVars, maxDurationMsRef, durationUpdated, playPosition,
                   metaPending, inflight>>

\* updateStatus, one poll.
NativeUpdateStatus ==
    /\ UNCHANGED <<recVars, fmtVars, arVars, appVars>>
    /\ platform = "native"
    /\ audioLoaded
    /\ IF NearEnd(MaxDuration(Fin(clipLen)), audioTime)
       THEN /\ Len(inflight) < MaxInflight
            /\ inflight' = CallHandleEnded(durationMs)
            /\ report' = [src |-> "guard", pos |-> audioTime]
            /\ UNCHANGED <<isPlaying, durationMs, playPosition, authAccepted,
                           durSource>>
       ELSE /\ playPosition' = audioTime
            /\ durationMs' = IF durationMs = 0 /\ clipLen > 0
                             THEN clipLen ELSE durationMs
            /\ durSource' = IF durationMs' # durationMs THEN "meta"
                            ELSE durSource
            /\ authAccepted' = (authAccepted \/ durationMs' # durationMs)
            /\ isPlaying' = StatusIsPlaying
            /\ report' = [src |-> "publish", pos |-> audioTime]
            /\ UNCHANGED inflight
    /\ UNCHANGED <<clipVars, maxDurationMsRef, durationUpdated, audioLoaded,
                   audioPaused, audioEnded, audioTime, metaLoaded, metaPending,
                   endedPending, cbDur, endCalls>>

\* The sound's status callback with didJustFinish.
NativeDidJustFinish ==
    /\ UNCHANGED <<recVars, fmtVars, arVars, appVars>>
    /\ platform = "native"
    /\ endedPending
    /\ Len(inflight) < MaxInflight
    /\ endedPending' = FALSE
    /\ durationMs' = IF cbDur = 0 THEN clipLen ELSE durationMs
    /\ durSource' = IF durationMs' # durationMs THEN "meta" ELSE durSource
    /\ authAccepted' = (authAccepted \/ durationMs' # durationMs)
    /\ isPlaying' = StatusIsPlaying
    /\ inflight' = CallHandleEnded(cbDur)
    /\ report' = [src |-> "ended", pos |-> audioTime]
    /\ UNCHANGED <<clipVars, maxDurationMsRef, durationUpdated, playPosition,
                   audioLoaded, audioPaused, audioEnded, audioTime, metaLoaded,
                   metaPending, cbDur, endCalls>>

\* handleEnded resumes with the status it awaited: takes the final position
\* and sends the sound back to the start.
NativeHandleEndedStatus ==
    /\ UNCHANGED <<recVars, fmtVars, arVars, appVars>>
    /\ platform = "native"
    /\ audioLoaded
    /\ \E i \in 1..Len(inflight) :
          /\ inflight[i].stage = "status"
          /\ durationMs' = EndedDuration(durationMs, inflight[i].cDur,
                                         audioTime)
          /\ inflight' = [inflight EXCEPT ![i].stage = "pause"]
    /\ durSource' = IF durationMs' # durationMs THEN "eos" ELSE durSource
    /\ authAccepted' = (authAccepted \/ durationMs' # durationMs)
    /\ report' = [src |-> "eosread", pos |-> audioTime]
    /\ audioTime' = 0
    /\ audioEnded' = FALSE
    /\ audioPaused' = (audioPaused \/ audioEnded)
    /\ UNCHANGED <<clipVars, maxDurationMsRef, durationUpdated, isPlaying,
                   playPosition, audioLoaded, metaLoaded, metaPending,
                   endedPending, cbDur, endCalls>>

\* handleEnded resumes after the seek and the pause: the ended transition.
NativeHandleEndedFinish ==
    /\ UNCHANGED <<recVars, fmtVars, arVars, appVars>>
    /\ platform = "native"
    /\ audioLoaded
    /\ \E i \in 1..Len(inflight) :
          /\ inflight[i].stage = "pause"
          /\ inflight' = RemoveAt(inflight, i)
          /\ endCalls' = endCalls + 1
    /\ audioPaused' = TRUE
    /\ isPlaying' = FALSE
    /\ playPosition' = 0
    /\ report' = [src |-> "transition", pos |-> audioTime]
    /\ UNCHANGED <<clipVars, maxDurationMsRef, durationUpdated, durationMs,
                   audioLoaded, audioEnded, audioTime, metaLoaded, metaPending,
                   endedPending, cbDur, authAccepted, durSource>>

\* pausePlayer
NativePausePlayer ==
    /\ UNCHANGED <<recVars, fmtVars, arVars, appVars>>
    /\ platform = "native"
    /\ audioLoaded /\ isPlaying
    /\ audioPaused' = TRUE
    /\ isPlaying' = FALSE
    /\ report' = NoReport
    /\ UNCHANGED <<clipVars, maxDurationMsRef, durationUpdated, durationMs,
                   playPosition, audioLoaded, audioEnded, audioTime,
                   metaLoaded, metaPending, endedPending, cbDur, inflight,
                   endCalls, authAccepted, durSource>>

\* resumePlayer (pressed, like play, between runs)
NativeResumePlayer ==
    /\ UNCHANGED <<recVars, fmtVars, arVars, appVars>>
    /\ platform = "native"
    /\ audioLoaded /\ ~isPlaying
    /\ inflight = <<>>
    /\ audioPaused' = FALSE
    /\ isPlaying' = TRUE
    /\ endCalls' = 0
    /\ report' = NoReport
    /\ UNCHANGED <<clipVars, maxDurationMsRef, durationUpdated, durationMs,
                   playPosition, audioLoaded, audioEnded, audioTime,
                   metaLoaded, metaPending, endedPending, cbDur, inflight,
                   authAccepted, durSource>>

\* stopPlayer
NativeStopPlayer ==
    /\ UNCHANGED <<recVars, fmtVars, arVars, appVars>>
    /\ platform = "native"
    /\ audioLoaded
    /\ audioPaused' = TRUE
    /\ audioTime' = 0
    /\ audioEnded' = FALSE
    /\ isPlaying' = FALSE
    /\ playPosition' = 0
    /\ report' = [src |-> "stop", pos |-> audioTime]
    /\ UNCHANGED <<clipVars, maxDurationMsRef, durationUpdated, durationMs,
                   audioLoaded, metaLoaded, metaPending, endedPending, cbDur,
                   inflight, endCalls, authAccepted, durSource>>

NativeNext ==
    \/ NativeStartPlayer
    \/ NativeUpdateStatus
    \/ NativeDidJustFinish
    \/ NativeHandleEndedStatus
    \/ NativeHandleEndedFinish
    \/ NativePausePlayer
    \/ NativeResumePlayer
    \/ NativeStopPlayer

PlayNext == AudioProgress \/ MonitorStoredDuration \/ WebNext \/ NativeNext

----------------------------------------------------------------------------
(* The Playback screen: what its buttons do with the player hook *)

\* handlePlayPause of the web screen: isPlaying ? pausePlayer() : startPlayer(url)
HandlePlayPause == IF isPlaying THEN PausePlayer ELSE StartPlayer

\* handlePlayPause of the native screen
NativeHandlePlayPause ==
    IF isPlaying THEN NativePausePlayer ELSE NativeStartPlayer

\* The screen's buttons and the events of the media.
PlaybackNext ==
    \/ AudioProgress
    \/ MonitorStoredDuration
    \/ HandlePlayPause
    \/ HandleLoadedMetadata
    \/ HandleTimeUpdate
    \/ HandleEndedEvent
    \/ StopPlayer
    \/ NativeHandlePlayPause
    \/ NativeUpdateStatus
    \/ NativeDidJustFinish
    \/ NativeHandleEndedStatus
    \/ NativeHandleEndedFinish
    \/ NativeStopPlayer

----------------------------------------------------------------------------

(* The time formatters *)

\* x < 0
IsNegative(x) == (x.k = "fin" /\ x.v < 0) \/ x.k = "ninf"

\* Math.floor(x / d) for an integer d > 0
FloorDiv(x, d) == IF x.k = "fin" THEN Fin(x.v \div d) ELSE x

\* x % d for an integer d > 0: the remainder has the sign of x
Rem(x, d) ==
    IF x.k # "fin" THEN NaN
    ELSE IF x.v >= 0 THEN Fin(x.v % d) ELSE Fin(-((-x.v) % d))

\* x.toString()
NumToString(x) ==
    CASE x.k = "fin" -> ToString(x.v)
      [] x.k = "nan" -> "NaN"
      [] x.k = "inf" -> "Infinity"
      [] x.k = "ninf" -> "-Infinity"

\* str.padStart(2, '0')
PadStart2(str) == IF Len(str) < 2 THEN "0" \o str ELSE str

\* `${hours}:${minutes}:${seconds}` of a number of milliseconds, each padded
HoursMinutesSeconds(milliseconds) ==
    LET totalSeconds == FloorDiv(milliseconds, 1000)
        hours == FloorDiv(totalSeconds, 3600)
        minutes == FloorDiv(Rem(totalSeconds, 3600), 60)
        seconds == Rem(totalSeconds, 60)
    IN  PadStart2(NumToString(hours)) \o ":" \o
        PadStart2(NumToString(minutes)) \o ":" \o
        PadStart2(NumToString(seconds))

\* `${minutes}:${seconds}` of a number of milliseconds, each padded
MinutesSeconds(milliseconds) ==
    LET totalSeconds == FloorDiv(milliseconds, 1000)
        minutes == FloorDiv(totalSeconds, 60)
        seconds == Rem(totalSeconds, 60)
    IN  PadStart2(NumToString(minutes)) \o ":" \o
        PadStart2(NumToString(seconds))

\* !isFinite(milliseconds) || milliseconds < 0
InvalidTime(milliseconds) == ~IsFinite(milliseconds) \/ IsNegative(milliseconds)

\* formatRecordTime of useRecorder (web and native alike)
formatRecordTime(milliseconds) == HoursMinutesSeconds(milliseconds)

\* formatPlayTime of the web usePlayer
formatPlayTimeWeb(milliseconds) ==
    IF InvalidTime(milliseconds) THEN "00:00"
    ELSE MinutesSeconds(milliseconds)

\* formatPlayTime of the native usePlayer
formatPlayTimeNative(milliseconds) ==
    IF InvalidTime(milliseconds) THEN "00:00:00"
    ELSE HoursMinutesSeconds(milliseconds)

\* formatTime of the web Playback screen
formatTimePlayback(milliseconds) ==
    IF InvalidTime(milliseconds) THEN "00:00:00"
    ELSE HoursMinutesSeconds(milliseconds)

\* formatTime of the native Timestamp component
formatTimeTimestamp(ms) ==
    IF ~IsFinite(ms) \/ IsNegative(ms) \/ ms.k = "nan" THEN "00:00:00"
    ELSE HoursMinutesSeconds(ms)

\* Whole seconds at which a field of the display rolls over, and around them.
FmtSeconds ==
    (0..MaxFmtSec) \cup {59, 60, 61, 3599, 3600, 3661, 86399, 86400,
                         359999, 360000}

FmtMs == {sec * 1000 + r : sec \in FmtSeconds, r \in {0, 1, 999}}

FmtInputs ==
    {NaN, PosInf, NegInf} \cup {Fin(m) : m \in FmtMs}
                          \cup {Fin(-m) : m \in FmtMs \ {0}}

FmtIdle == fmtInput = Fin(0) /\ fmtName = "none" /\ fmtOutput = ""

FmtInit == fmtInput \in FmtInputs /\ fmtName = "none" /\ fmtOutput = ""

FormatRecordTime ==
    /\ fmtName' = "formatRecordTime"
    /\ fmtOutput' = formatRecordTime(fmtInput)
    /\ UNCHANGED <<recVars, playVars, fmtInput, arVars, appVars>>

FormatPlayTimeWeb ==
    /\ fmtName' = "formatPlayTimeWeb"
    /\ fmtOutput' = formatPlayTimeWeb(fmtInput)
    /\ UNCHANGED <<recVars, playVars, fmtInput, arVars, appVars>>

FormatPlayTimeNative ==
    /\ fmtName' = "formatPlayTimeNative"
    /\ fmtOutput' = formatPlayTimeNative(fmtInput)
    /\ UNCHANGED <<recVars, playVars, fmtInput, arVars, appVars>>

FormatTimePlayback ==
    /\ fmtName' = "formatTimePlayback"
    /\ fmtOutput' = formatTimePlayback(fmtInput)
    /\ UNCHANGED <<recVars, playVars, fmtInput, arVars, appVars>>

FormatTimeTimestamp ==
    /\ fmtName' = "formatTimeTimestamp"
    /\ fmtOutput' = formatTimeTimestamp(fmtInput)
    /\ UNCHANGED <<recVars, playVars, fmtInput, arVars, appVars>>

FmtNext ==
    \/ FormatRecordTime
    \/ FormatPlayTimeWeb
    \/ FormatPlayTimeNative
    \/ FormatTimePlayback
    \/ FormatTimeTimestamp

----------------------------------------------------------------------------
(* useAudioRecorder: the recorder hook of the first web screen.  Its timer   *)
(* is an interval that startTimer schedules and stopTimer clears; the hook    *)
(* has no effect, so nothing of it runs when the component unmounts.  The     *)
(* callbacks close over isRecording / isPaused of the render that made them.  *)

\* startTimer: timerRef.current = setInterval(...)
StartTimer ==
    /\ timers' = timers + 1
    /\ timerRef' = TRUE

\* stopTimer: if (timerRef.current) { clearInterval(...); timerRef.current = null }
StopTimer ==
    /\ timers' = IF timerRef THEN timers - 1 ELSE timers
    /\ timerRef' = FALSE

\* setState of a mounted component; React drops it after the unmount.
SetState(current, value) == IF arMounted THEN value ELSE current

ArInit ==
    /\ arIsRecording = FALSE /\ arIsPaused = FALSE
    /\ arCIsRecording = FALSE /\ arCIsPaused = FALSE
    /\ recordingTime = 0
    /\ timerRef = FALSE /\ timers = 0
    /\ arMounted = TRUE
    /\ arStartPending = 0
    /\ arMrState = "inactive" /\ arStopEvt = "none"

\* React re-renders the mounted component: new callbacks.
ArRender ==
    /\ UNCHANGED <<recVars, playVars, fmtVars, appVars>>
    /\ arMounted
    /\ arCIsRecording' = arIsRecording
    /\ arCIsPaused' = arIsPaused
    /\ UNCHANGED <<arIsRecording, arIsPaused, recordingTime, timerRef, timers,
                   arMounted, arStartPending, arMrState, arStopEvt>>

\* startRecording up to await getUserMedia.
StartRecording ==
    /\ UNCHANGED <<recVars, playVars, fmtVars, appVars>>
    /\ arMounted
    /\ arStartPending < MaxArPendingStarts
    /\ arStartPending' = arStartPending + 1
    /\ UNCHANGED <<arIsRecording, arIsPaused, arCIsRecording, arCIsPaused,
                   recordingTime, timerRef, timers, arMounted, arMrState,
                   arStopEvt>>

\* getUserMedia resolved: a new MediaRecorder records, the timer starts.
\* (The old recorder's stop event, if any, has been delivered.)
StartRecordingResolve ==
    /\ UNCHANGED <<recVars, playVars, fmtVars, appVars>>
    /\ arStartPending > 0
    /\ arStopEvt = "none"
    /\ timers < MaxTimers
    /\ arStartPending' = arStartPending - 1
    /\ arMrState' = "recording"
    /\ arIsRecording' = SetState(arIsRecording, TRUE)
    /\ arIsPaused' = SetState(arIsPaused, FALSE)
    /\ recordingTime' = SetState(recordingTime, 0)
    /\ StartTimer
    /\ UNCHANGED <<arCIsRecording, arCIsPaused, arMounted, arStopEvt>>

\* getUserMedia rejected: the catch block records the error.
StartRecordingReject ==
    /\ UNCHANGED <<recVars, playVars, fmtVars, appVars>>
    /\ arStartPending > 0
    /\ arStartPending' = arStartPending - 1
    /\ UNCHANGED <<arIsRecording, arIsPaused, arCIsRecording, arCIsPaused,
                   recordingTime, timerRef, timers, arMounted, arMrState,
                   arStopEvt>>

\* One firing of one scheduled interval: setRecordingTime(prev => prev + 1).
TimerTick ==
    /\ UNCHANGED <<recVars, playVars, fmtVars, appVars>>
    /\ timers > 0
    /\ recordingTime < MaxRecordingTime
    /\ recordingTime' = SetState(recordingTime, recordingTime + 1)
    /\ UNCHANGED <<arIsRecording, arIsPaused, arCIsRecording, arCIsPaused,
                   timerRef, timers, arMounted, arStartPending, arMrState,
                   arStopEvt>>

\* pauseRecording; MediaRecorder.pause() raises on an inactive recorder,
\* before anything is changed.
PauseRecording ==
    /\ UNCHANGED <<recVars, playVars, fmtVars, appVars>>
    /\ arMounted
    /\ arCIsRecording /\ ~arCIsPaused
    /\ arMrState # "inactive"
    /\ arMrState' = "paused"
    /\ arIsPaused' = TRUE
    /\ StopTimer
    /\ UNCHANGED <<arIsRecording, arCIsRecording, arCIsPaused, recordingTime,
                   arMounted, arStartPending, arStopEvt>>

\* resumeRecording; MediaRecorder.resume() raises on an inactive recorder.
ResumeRecording ==
    /\ UNCHANGED <<recVars, playVars, fmtVars, appVars>>
    /\ arMounted
    /\ arCIsRecording /\ arCIsPaused
    /\ arMrState # "inactive"
    /\ timers < MaxTimers
    /\ arMrState' = "recording"
    /\ arIsPaused' = FALSE
    /\ StartTimer
    /\ UNCHANGED <<arIsRecording, arCIsRecording, arCIsPaused, recordingTime,
                   arMounted, arStartPending, arStopEvt>>

\* stopRecording: adds its stop listener and stops the recorder; the stop
\* event is delivered later.  stop() on an inactive recorder does nothing.
StopRecording ==
    /\ UNCHANGED <<recVars, playVars, fmtVars, appVars>>
    /\ arMounted
    /\ arCIsRecording
    /\ arMrState # "inactive"
    /\ arMrState' = "inactive"
    /\ arStopEvt' = "hook"
    /\ UNCHANGED <<arIsRecording, arIsPaused, arCIsRecording, arCIsPaused,
                   recordingTime, timerRef, timers, arMounted, arStartPending>>

\* The recorder's stop event: onstop builds the blob; stopRecording's
\* listener, when it was added, clears the flags and stops the timer.
StopEvent ==
    /\ UNCHANGED <<recVars, playVars, fmtVars, appVars>>
    /\ arStopEvt # "none"
    /\ arStopEvt' = "none"
    /\ IF arStopEvt = "hook"
       THEN /\ arIsRecording' = SetState(arIsRecording, FALSE)
            /\ arIsPaused' = SetState(arIsPaused, FALSE)
            /\ StopTimer
       ELSE UNCHANGED <<arIsRecording, arIsPaused, timerRef, timers>>
    /\ UNCHANGED <<arCIsRecording, arCIsPaused, recordingTime, arMounted,
                   arStartPending, arMrState>>

\* resetRecording
ResetRecording ==
    /\ UNCHANGED <<recVars, playVars, fmtVars, appVars>>
    /\ arMounted
    /\ IF arCIsRecording /\ arMrState # "inactive"
       THEN arMrState' = "inactive" /\ arStopEvt' = "reset"
       ELSE UNCHANGED <<arMrState, arStopEvt>>
    /\ arIsRecording' = FALSE
    /\ arIsPaused' = FALSE
    /\ recordingTime' = 0
    /\ StopTimer
    /\ UNCHANGED <<arCIsRecording, arCIsPaused, arMounted, arStartPending>>

\* The screen is left (route change): the component unmounts.  Neither the
\* hook nor the screen registers a cleanup.
Unmount ==
    /\ UNCHANGED <<recVars, playVars, fmtVars, appVars>>
    /\ arMounted
    /\ arMounted' = FALSE
    /\ UNCHANGED <<arIsRecording, arIsPaused, arCIsRecording, arCIsPaused,
                   recordingTime, timerRef, timers, arStartPending, arMrState,
                   arStopEvt>>

ArNext ==
    \/ ArRender
    \/ StartRecording
    \/ StartRecordingResolve
    \/ StartRecordingReject
    \/ TimerTick
    \/ PauseRecording
    \/ ResumeRecording
    \/ StopRecording
    \/ StopEvent
    \/ ResetRecording
    \/ Unmount

----------------------------------------------------------------------------

(* The store's recordings list over the native storage adapter *)

Ids == 1..MaxIds

InList(id, list) == \E i \in 1..Len(list) : list[i] = id

\* recordings.filter((r) => r.id !== id)
Filter(list, id) == SelectSeq(list, LAMBDA x : x # id)

\* saveRecording: replace the entry with this id, or put it first
Upsert(list, id) == IF InList(id, list) THEN list ELSE <<id>> \o list

\* deleteRecording of the store always filtering, whatever storage did
DeleteOutcomeOptimistic(list, id, ok) == Filter(list, id)

\* deleteRecording of the store after its await: the list is filtered when
\* the storage promise resolved and left alone when it rejected.
DeleteOutcome(list, id, ok) == IF ok THEN Filter(list, id) ELSE list

\* ids 1..n, newest first, as an earlier run left them
OldList(n) == [i \in 1..n |-> n + 1 - i]

StoreFields ==
    /\ recordings = <<>> /\ isLoading = FALSE
    /\ loadPc = "idle" /\ loadSnap = <<>>
    /\ savePc = "idle" /\ saveId = 0 /\ saveSnap = <<>>
    /\ writes = <<>>
    /\ delPc = "idle" /\ delId = 0 /\ delSnap = <<>>
    /\ added = {} /\ deleted = {} /\ deleteCalled = {}
    /\ deleteError = FALSE

\* a fresh store; storage may hold recordings of an earlier run
StoreInit ==
    /\ StoreFields
    /\ \E n \in 0..MaxOldIds : persisted = OldList(n) /\ issued = n

StoreIdle == StoreFields /\ persisted = <<>> /\ issued = 0

\* loadRecordingsFromStorage up to its await
LoadStart ==
    /\ UNCHANGED <<recVars, playVars, fmtVars, arVars, cbVars>>
    /\ loadPc = "idle"
    /\ loadPc' = "reading"
    /\ isLoading' = TRUE
    /\ UNCHANGED <<recordings, persisted, issued, loadSnap, savePc, saveId,
                   saveSnap, writes, delPc, delId, delSnap, added, deleted,
                   deleteCalled, deleteError>>

\* the adapter's loadRecordings: AsyncStorage.getItem answers
LoadRead ==
    /\ UNCHANGED <<recVars, playVars, fmtVars, arVars, cbVars>>
    /\ loadPc = "reading"
    /\ loadPc' = "read"
    /\ loadSnap' = persisted
    /\ UNCHANGED <<recordings, isLoading, persisted, issued, savePc, saveId,
                   saveSnap, writes, delPc, delId, delSnap, added, deleted,
                   deleteCalled, deleteError>>

\* loadRecordingsFromStorage after its await: set({ recordings, isLoading })
LoadFinish ==
    /\ UNCHANGED <<recVars, playVars, fmtVars, arVars, cbVars>>
    /\ loadPc = "read"
    /\ loadPc' = "idle"
    /\ recordings' = loadSnap
    /\ isLoading' = FALSE
    /\ loadSnap' = <<>>
    /\ UNCHANGED <<persisted, issued, savePc, saveId, saveSnap, writes,
                   delPc, delId, delSnap, added, deleted, deleteCalled,
                   deleteError>>

\* the stop handler builds a recording with a new id and calls the adapter's
\* saveRecording, which first loads the stored list
SaveRead ==
    /\ UNCHANGED <<recVars, playVars, fmtVars, arVars, cbVars>>
    /\ savePc = "idle"
    /\ issued < MaxIds
    /\ issued' = issued + 1
    /\ saveId' = issued + 1
    /\ saveSnap' = persisted
    /\ savePc' = "read"
    /\ UNCHANGED <<recordings, isLoading, persisted, loadPc, loadSnap, writes,
                   delPc, delId, delSnap, added, deleted, deleteCalled,
                   deleteError>>

\* saveRecording stores the list it loaded with the recording put first
SaveWrite ==
    /\ UNCHANGED <<recVars, playVars, fmtVars, arVars, cbVars>>
    /\ savePc = "read"
    /\ persisted' = Upsert(saveSnap, saveId)
    /\ savePc' = "written"
    /\ saveSnap' = <<>>
    /\ UNCHANGED <<recordings, isLoading, issued, loadPc, loadSnap, saveId,
                   writes, delPc, delId, delSnap, added, deleted,
                   deleteCalled, deleteError>>

\* addRecording: the recording is put first in the list and the whole new
\* list is handed to saveRecordings, which is not awaited
AddRecording ==
    /\ UNCHANGED <<recVars, playVars, fmtVars, arVars, cbVars>>
    /\ savePc = "written"
    /\ Len(writes) < MaxWrites
    /\ recordings' = <<saveId>> \o recordings
    /\ writes' = Append(writes, recordings')
    /\ added' = added \cup {saveId}
    /\ savePc' = "idle"
    /\ UNCHANGED <<isLoading, persisted, issued, loadPc, loadSnap, saveId,
                   saveSnap, delPc, delId, delSnap, deleted, deleteCalled,
                   deleteError>>

\* updateRecording: the list is mapped (its ids stay) and the whole list is
\* handed to saveRecordings, which is not awaited
UpdateRecording ==
    /\ UNCHANGED <<recVars, playVars, fmtVars, arVars, cbVars>>
    /\ Len(writes) < MaxWrites
    /\ writes' = Append(writes, recordings)
    /\ UNCHANGED <<recordings, isLoading, persisted, issued, loadPc, loadSnap,
                   savePc, saveId, saveSnap, delPc, delId, delSnap, added,
                   deleted, deleteCalled, deleteError>>

\* the adapter's saveRecordings: AsyncStorage.setItem stores the list
WriteCommit ==
    /\ UNCHANGED <<recVars, playVars, fmtVars, arVars, cbVars>>
    /\ writes # <<>>
    /\ persisted' = Head(writes)
    /\ writes' = Tail(writes)
    /\ UNCHANGED <<recordings, isLoading, issued, loadPc, loadSnap, savePc,
                   saveId, saveSnap, delPc, delId, delSnap, added, deleted,
                   deleteCalled, deleteError>>

\* deleteRecording of the store up to its await, for a recording on display
DeleteStart(id) ==
    /\ UNCHANGED <<recVars, playVars, fmtVars, arVars, cbVars>>
    /\ delPc = "idle"
    /\ InList(id, recordings)
    /\ delPc' = "reading"
    /\ delId' = id
    /\ deleteCalled' = deleteCalled \cup {id}
    /\ UNCHANGED <<recordings, isLoading, persisted, issued, loadPc, loadSnap,
                   savePc, saveId, saveSnap, writes, delSnap, added, deleted,
                   deleteError>>

\* the adapter's deleteRecording loads the stored list
DeleteRead ==
    /\ UNCHANGED <<recVars, playVars, fmtVars, arVars, cbVars>>
    /\ delPc = "reading"
    /\ delPc' = "read"
    /\ delSnap' = persisted
    /\ UNCHANGED <<recordings, isLoading, persisted, issued, loadPc, loadSnap,
                   savePc, saveId, saveSnap, writes, delId, added, deleted,
                   deleteCalled, deleteError>>

\* it stores the filtered list; saveRecordings may throw
DeleteWrite ==
    /\ UNCHANGED <<recVars, playVars, fmtVars, arVars, cbVars>>
    /\ delPc = "read"
    /\ \E ok \in BOOLEAN :
          /\ persisted' = IF ok THEN Filter(delSnap, delId) ELSE persisted
          /\ delPc' = IF ok THEN "wrote" ELSE "failed"
    /\ delSnap' = <<>>
    /\ UNCHANGED <<recordings, isLoading, issued, loadPc, loadSnap, savePc,
                   saveId, saveSnap, writes, delId, added, deleted,
                   deleteCalled, deleteError>>

\* it deletes the audio file; the file system may throw
DeleteFile ==
    /\ UNCHANGED <<recVars, playVars, fmtVars, arVars, cbVars>>
    /\ delPc = "wrote"
    /\ \E ok \in BOOLEAN : delPc' = IF ok THEN "ok" ELSE "failed"
    /\ UNCHANGED <<recordings, isLoading, persisted, issued, loadPc, loadSnap,
                   savePc, saveId, saveSnap, writes, delId, delSnap, added,
                   deleted, deleteCalled, deleteError>>

\* deleteRecording of the store after its await: the list is filtered, or
\* the catch block logs and throws again
DeleteSettle ==
    /\ UNCHANGED <<recVars, playVars, fmtVars, arVars, cbVars>>
    /\ delPc \in {"ok", "failed"}
    /\ recordings' = DeleteOutcome(recordings, delId, delPc = "ok")
    /\ deleteError' = (delPc = "failed")
    /\ deleted' = IF delPc = "ok" THEN deleted \cup {delId} ELSE deleted
    /\ delPc' = "idle"
    /\ UNCHANGED <<isLoading, persisted, issued, loadPc, loadSnap, savePc,
                   saveId, saveSnap, writes, delId, delSnap, added,
                   deleteCalled>>

StoreNext ==
    \/ LoadStart
    \/ LoadRead
    \/ LoadFinish
    \/ SaveRead
    \/ SaveWrite
    \/ AddRecording
    \/ UpdateRecording
    \/ WriteCommit
    \/ \E id \in Ids : DeleteStart(id)
    \/ DeleteRead
    \/ DeleteWrite
    \/ DeleteFile
    \/ DeleteSettle

\* the store as the Playback screen uses it: the list is loaded, the
\* recording on display is updated and deleted
PlaybackStoreNext ==
    \/ LoadStart
    \/ LoadRead
    \/ LoadFinish
    \/ UpdateRecording
    \/ WriteCommit
    \/ \E id \in Ids : DeleteStart(id)
    \/ DeleteRead
    \/ DeleteWrite
    \/ DeleteFile
    \/ DeleteSettle

----------------------------------------------------------------------------
(* The store's control callbacks and the screens that register them *)

\* clearCallbacks: all four become undefined
ClearCallbacks(cb) == [k \in DOMAIN cb |-> 0]

\* setRecordingCallbacks({ onPauseResume, onStop })
SetRecordingCallbacks(cb, h) ==
    [cb EXCEPT !.onRecordingPauseResume = h, !.onRecordingStop = h]

\* setPlaybackCallbacks({ onPlayPause, onStop })
SetPlaybackCallbacks(cb, h) ==
    [cb EXCEPT !.onPlaybackPlayPause = h, !.onPlaybackStop = h]

\* the four callback fields of the store as one record
Callbacks ==
    [onRecordingPauseResume |-> onRecordingPauseResume,
     onRecordingStop |-> onRecordingStop,
     onPlaybackPlayPause |-> onPlaybackPlayPause,
     onPlaybackStop |-> onPlaybackStop]

\* set(...) of the callback fields
SetCallbacks(cb) ==
    /\ onRecordingPauseResume' = cb.onRecordingPauseResume
    /\ onRecordingStop' = cb.onRecordingStop
    /\ onPlaybackPlayPause' = cb.onPlaybackPlayPause
    /\ onPlaybackStop' = cb.onPlaybackStop

CbInit ==
    /\ onRecordingPauseResume = 0 /\ onRecordingStop = 0
    /\ onPlaybackPlayPause = 0 /\ onPlaybackStop = 0
    /\ recHandlers = 0 /\ recEffect = 0
    /\ playHandlers = 0 /\ playEffect = 0

\* the Recording screen is pushed and renders
RecordingMount ==
    /\ UNCHANGED <<recVars, playVars, fmtVars, arVars, storeVars>>
    /\ recHandlers = 0
    /\ recHandlers' = 1
    /\ UNCHANGED <<onRecordingPauseResume, onRecordingStop,
                   onPlaybackPlayPause, onPlaybackStop, recEffect,
                   playHandlers, playEffect>>

\* it renders again and its handlers get a new identity
RecordingRender ==
    /\ UNCHANGED <<recVars, playVars, fmtVars, arVars, storeVars>>
    /\ recHandlers > 0
    /\ recHandlers < MaxRenders
    /\ recHandlers' = recHandlers + 1
    /\ UNCHANGED <<onRecordingPauseResume, onRecordingStop,
                   onPlaybackPlayPause, onPlaybackStop, recEffect,
                   playHandlers, playEffect>>

\* its registration effect runs for the handlers of the last render; when it
\* ran before, the cleanup of that run comes first
RecordingEffect ==
    /\ UNCHANGED <<recVars, playVars, fmtVars, arVars, storeVars>>
    /\ recHandlers > 0
    /\ recEffect # recHandlers
    /\ SetCallbacks(SetRecordingCallbacks(
           IF recEffect > 0 THEN ClearCallbacks(Callbacks) ELSE Callbacks,
           recHandlers))
    /\ recEffect' = recHandlers
    /\ UNCHANGED <<recHandlers, playHandlers, playEffect>>

\* it unmounts: the cleanup of its effect runs
RecordingUnmount ==
    /\ UNCHANGED <<recVars, playVars, fmtVars, arVars, storeVars>>
    /\ recHandlers > 0
    /\ SetCallbacks(IF recEffect > 0 THEN ClearCallbacks(Callbacks)
                    ELSE Callbacks)
    /\ recHandlers' = 0
    /\ recEffect' = 0
    /\ UNCHANGED <<playHandlers, playEffect>>

\* the Playback screen is pushed and renders
PlaybackMount ==
    /\ UNCHANGED <<recVars, playVars, fmtVars, arVars, storeVars>>
    /\ playHandlers = 0
    /\ playHandlers' = 1
    /\ UNCHANGED <<onRecordingPauseResume, onRecordingStop,
                   onPlaybackPlayPause, onPlaybackStop, recHandlers,
                   recEffect, playEffect>>

PlaybackRender ==
    /\ UNCHANGED <<recVars, playVars, fmtVars, arVars, storeVars>>
    /\ playHandlers > 0
    /\ playHandlers < MaxRenders
    /\ playHandlers' = playHandlers + 1
    /\ UNCHANGED <<onRecordingPauseResume, onRecordingStop,
                   onPlaybackPlayPause, onPlaybackStop, recHandlers,
                   recEffect, playEffect>>

PlaybackEffect ==
    /\ UNCHANGED <<recVars, playVars, fmtVars, arVars, storeVars>>
    /\ playHandlers > 0
    /\ playEffect # playHandlers
    /\ SetCallbacks(SetPlaybackCallbacks(
           IF playEffect > 0 THEN ClearCallbacks(Callbacks) ELSE Callbacks,
           playHandlers))
    /\ playEffect' = playHandlers
    /\ UNCHANGED <<recHandlers, recEffect, playHandlers>>

PlaybackUnmount ==
    /\ UNCHANGED <<recVars, playVars, fmtVars, arVars, storeVars>>
    /\ playHandlers > 0
    /\ SetCallbacks(IF playEffect > 0 THEN ClearCallbacks(Callbacks)
                    ELSE Callbacks)
    /\ playHandlers' = 0
    /\ playEffect' = 0
    /\ UNCHANGED <<recHandlers, recEffect>>

CbNext ==
    \/ RecordingMount
    \/ RecordingRender
    \/ RecordingEffect
    \/ RecordingUnmount
    \/ PlaybackMount
    \/ PlaybackRender
    \/ PlaybackEffect
    \/ PlaybackUnmount

----------------------------------------------------------------------------

\* The recorder is checked with an idle player and idle formatters, and so on.
PlayIdle ==
    /\ PlayInit
    /\ platform = "web" /\ clipLen = TimeUnit /\ clipMetaFinite
    /\ maxDurationMsRef = 0

Init == RecInit /\ PlayIdle /\ FmtIdle /\ ArInit /\ StoreIdle /\ CbInit

Spec == Init /\ [][RecNext]_vars

InitPlayer == RecInit /\ PlayInit /\ FmtIdle /\ ArInit /\ StoreIdle /\ CbInit

SpecPlayer == InitPlayer /\ [][PlayNext]_vars

InitFormat == RecInit /\ PlayIdle /\ FmtInit /\ ArInit /\ StoreIdle /\ CbInit

SpecFormat == InitFormat /\ [][FmtNext]_vars

SpecPlayback == InitPlayer /\ [][PlaybackNext]_vars

SpecWeb == Init /\ [][WebRecNext]_vars

SpecWebStop == Init /\ [][WebStopNext]_vars

SpecAudioRecorder == Init /\ [][ArNext]_vars

InitStore ==
    RecInit /\ PlayIdle /\ FmtIdle /\ ArInit /\ StoreInit /\ CbInit

SpecStore == InitStore /\ [][StoreNext]_vars

SpecPlaybackStore == InitStore /\ [][PlaybackStoreNext]_vars

SpecCallbacks == Init /\ [][CbNext]_vars

----------------------------------------------------------------------------
(* Claims about the recorder clock, checked under Spec *)

\* The session is Running / Paused as the hook's state has it.
Running == isRecording /\ ~isPaused
Paused == isRecording /\ isPaused

\* C1: pause/resume neutrality. When the stop handler reads the final
\* duration of a Running session whose handlers all ran on current callbacks
\* (start, pause, resume, stop in sequence), that duration equals the
\* wall-clock time the session spent Running; paused intervals add nothing.
C1_PauseResumeNeutrality ==
    stopFrom = "running" => recordedDurationMs = runAtStop

\* C1 witness: a stop read the clock of a running session that had been
\* paused and resumed, and the paused interval is left out of the result.
C1_Witness ==
    /\ stopFrom = "running"
    /\ totalPausedTimeRef > 0
    /\ recordedDurationMs > 0
    /\ recordedDurationMs = now - startTimeRef - totalPausedTimeRef
    /\ recordedDurationMs < now - startTimeRef

\* C2: when stop is invoked while the session is Paused, the final duration
\* the stop handler reads (getFinalDuration) equals the elapsed value at the
\* moment the pause began.
C2_FrozenAtStopWhilePaused ==
    stopFrom = "paused" => recordedDurationMs = elapsedAtPause

\* C3: pauseRecorder invoked when the session is not Running, and
\* resumeRecorder invoked when it is not Paused, leave the start time, the
\* pause-start time, the total paused time and the paused flag unchanged,
\* also when the call comes from callbacks of an earlier render (double tap).
C3_PauseResumeNoOpOutsideState ==
    [][ ( \/ (PauseRecorder /\ ~Running)
          \/ (ResumeRecorder /\ ~Paused) )
        => UNCHANGED <<startTimeRef, pausedTimeRef, totalPausedTimeRef,
                       isPaused>> ]_vars

----------------------------------------------------------------------------
(* Claims about the player's known duration and its ended transition *)

\* The duration the player knows at a position update: the stored one, else
\* the hook's durationMs, else the one the loaded media reports; 0 = unknown.
KnownDuration ==
    IF maxDurationMsRef > 0 THEN maxDurationMsRef
    ELSE IF durationMs > 0 THEN durationMs
    ELSE IF metaLoaded /\ clipMetaFinite THEN clipLen
    ELSE 0

\* A timeupdate that carries a position (the element is neither paused nor
\* ended) at or after the known duration minus the buffer.
WebNearEndUpdate ==
    /\ HandleTimeUpdate
    /\ ~audioPaused /\ ~audioEnded
    /\ KnownDuration > 0 /\ audioTime >= KnownDuration - EndBufferMs

\* The web hook handles the end of the stream: the ended event, or the guard.
WebEndOfStream == HandleEndedEvent \/ WebNearEndUpdate

\* The native end handler reads the final position, seeing a durationMs of 0.
NativeEndOfStreamUnknown ==
    /\ NativeHandleEndedStatus
    /\ \A i \in 1..Len(inflight) :
          inflight[i].stage = "status" => inflight[i].cDur = 0

C5_NearEndGuard ==
    [][ /\ WebNearEndUpdate
              => /\ ~isPlaying' /\ endCalls' = endCalls + 1
                 /\ playPosition' = 0
        /\ ( /\ NativeUpdateStatus
             /\ KnownDuration > 0 /\ audioTime >= KnownDuration - EndBufferMs )
              => /\ Len(inflight') = Len(inflight) + 1
                 /\ playPosition' = playPosition
        /\ ( /\ HandleTimeUpdate \/ NativeUpdateStatus
             /\ playPosition' # playPosition /\ KnownDuration > 0 )
              => playPosition' < KnownDuration - EndBufferMs ]_vars

\* C5 witness: the guard has ended a playback before the media's own end.
C5_Witness ==
    /\ report.src = "guard" /\ report.pos > 0 /\ report.pos < clipLen
    /\ platform = "web" /\ endCalls = 1 /\ ~isPlaying /\ playPosition = 0
    /\ report.pos >= KnownDuration - EndBufferMs

\* C6: within one playback run onPlaybackEnd is invoked at most once.
C6_EndedAtMostOnce == endCalls <= 1

\* C7: once an authoritative duration has been accepted, no live estimate
\* changes the known duration.
C7_MonotonicTrust ==
    [][ (authAccepted /\ report'.src = "live") => durationMs' = durationMs ]_vars

\* C8: a finite positive duration from decoder metadata, or the position
\* observed at end-of-stream, replaces a known duration that holds a live
\* estimate.
C8_AuthoritativeOverwritesEstimate ==
    [][ /\ (durSource = "live" /\ HandleLoadedMetadata /\ clipMetaFinite)
              => durationMs' = clipLen
        /\ (durSource = "live" /\ WebEndOfStream /\ audioTime > 0)
              => durationMs' = audioTime ]_vars

\* C9: a reported duration that is not finite and positive leaves the known
\* duration exactly as it was.
C9_InvalidDurationRejected ==
    [][ (HandleLoadedMetadata /\ ~clipMetaFinite)
        => durationMs' = durationMs ]_vars

----------------------------------------------------------------------------
(* Claims about the time formatters *)

\* C10: every time formatter returns exactly "00:00:00" for an input that is
\* negative, NaN or infinite.
C10_InvalidFormatsAsZero ==
    (fmtName # "none" /\ (fmtInput.k # "fin" \/ fmtInput.v < 0))
        => fmtOutput = "00:00:00"

\* C11: for every finite ms >= 0 every formatter returns the zero-padded
\* HH:MM:SS of totalSeconds = floor(ms / 1000): hours = floor(totalSeconds /
\* 3600), minutes = floor((totalSeconds mod 3600) / 60), seconds =
\* totalSeconds mod 60.
C11_FormatsHoursMinutesSeconds ==
    (fmtName # "none" /\ fmtInput.k = "fin" /\ fmtInput.v >= 0)
        => LET totalSeconds == fmtInput.v \div 1000
               two(n) == IF n < 10 THEN "0" \o ToString(n) ELSE ToString(n)
           IN  fmtOutput = two(totalSeconds \div 3600) \o ":" \o
                           two((totalSeconds % 3600) \div 60) \o ":" \o
                           two(totalSeconds % 60)

----------------------------------------------------------------------------
(* More claims about the recorder *)

\* C12: a start invoked while a session is Running or Paused, or while an
\* earlier start is still awaited, is a no-op for the session clock: when it
\* completes, the existing session keeps its start time, its accumulated
\* paused time and its flags.
C12_StartWhileActiveIsNoOp ==
    [][ ((StartResolve \/ StartReject) /\ isRecording)
        => UNCHANGED <<startTimeRef, totalPausedTimeRef, pausedTimeRef,
                       isRecording, isPaused>> ]_vars

\* C13: no recorder or player operation raises or rejects to its caller in any
\* state; a failure underneath only sets the error field.
C13_NoThrow == ~thrown

----------------------------------------------------------------------------
(* Claims about the web recorder hook, checked under SpecWeb *)

\* The fields resetRecorder clears are at their cleared values, the result
\* reference included.
Cleared ==
    /\ ~isRecording /\ ~isPaused
    /\ startTimeRef = 0 /\ pausedTimeRef = 0 /\ totalPausedTimeRef = 0
    /\ recordPosition = 0 /\ ~recError /\ ~resultRef

\* C14: reset, from whatever state, leaves the recorder Idle with start time,
\* pause-start time, total paused time, position, error and result reference
\* cleared, and they stay cleared until the next start.
C14_ResetClearsUntilNextStart == afterReset => Cleared

\* Stopped: the stop event of the session's recorder was delivered to
\* stopRecorder's listener, and neither reset nor a new start has followed.
WebStopped ==
    /\ recordingRef /\ mrState = "inactive" /\ stopEvt = "none"
    /\ ~isRecording

\* C15: once the session is Stopped, no step other than reset or a new start
\* (no tick, pause or resume in particular) changes the elapsed position or
\* any clock field.
C15_StoppedIsFrozen ==
    [][ (WebStopped /\ ~WebResetRecorder /\ ~WebStartResolve)
        => UNCHANGED <<recordPosition, startTimeRef, pausedTimeRef,
                       totalPausedTimeRef>> ]_vars

\* A session stopped while Running, with a position on display, in which a
\* pause or resume was attempted after it had stopped (by a callback of the
\* render before the stop, the only kind that passes its own guard).
C15_Witness ==
    /\ WebStopped /\ stopFrom = "running" /\ recordPosition > 0
    /\ staleCalls > 0 /\ thrown

----------------------------------------------------------------------------
(* More claims about the recorder clock, checked under Spec *)

\* C16: when a recording is stopped (by a handler on current callbacks) and
\* saved, the duration written to its record is the time the session spent
\* Running, in whole seconds, whenever that is at least 1.
C16_SavedDurationIsRunningSeconds ==
    (stopFrom \in {"running", "paused"} /\ stopPending = 0
        /\ Ms(runAtStop) \div 1000 >= 1)
    => SavedDuration(Ms(recordedDurationMs)) = Ms(runAtStop) \div 1000

\* C18: every elapsed value the hook computes, each tick's position and the
\* final duration taken at stop, is >= 0.
C18_ElapsedNonNegative == recordPosition >= 0 /\ recordedDurationMs >= 0

----------------------------------------------------------------------------
(* More claims about the web recorder hook, checked under SpecWeb *)

\* C17: the pause-start timestamp is set exactly when the session is Paused;
\* it is cleared in Idle, Running and Stopped.
C17_PauseStartSetIffPaused == (pausedTimeRef # 0) <=> (isRecording /\ isPaused)

----------------------------------------------------------------------------
(* Claims about the web Recording screen's stop handler, checked under      *)
(* SpecWebStop                                                             *)

\* C25: a recording session that was stopped (and not reset since) yields at
\* most one saved recording, however often the stop handler is invoked
\* before its first run has finished.
C25_AtMostOneSaved == stopFrom # "none" => saved <= 1

----------------------------------------------------------------------------
(* Claims about useAudioRecorder, checked under SpecAudioRecorder *)

\* C20: once the component that uses the hook is unmounted, in whatever state
\* and without a reset, no interval of the session remains scheduled.
C20_NoTimerAfterUnmount == ~arMounted => timers = 0

----------------------------------------------------------------------------
(* More claims about the player and the Playback screen, checked under       *)
(* SpecPlayer                                                                *)

\* C21: the Playback screen's repair of a missing stored duration persists
\* only an authoritative value (decoder metadata or the end-of-stream
\* position), never a live estimate inferred from the playback position.
C21_PersistsOnlyAuthoritative ==
    [][ MonitorStoredDuration => durSource \in {"meta", "eos"} ]_vars

\* C22: when neither a stored duration nor decoder metadata supplies the
\* duration and the hook's durationMs is a live estimate, the near-end guard
\* does not perform the ended transition.
C22_NoEndOnLiveEstimate ==
    [][ ( /\ HandleTimeUpdate /\ ~audioPaused /\ ~audioEnded
          /\ maxDurationMsRef = 0 /\ ~clipMetaFinite /\ durSource = "live" )
        => report'.src # "guard" ]_vars

\* C23: for a recording of real length L whose stored duration is L floored
\* to whole seconds, the near-end guard performs the ended transition only at
\* positions >= L - 100 ms.
C23_FloorDoesNotEndEarly ==
    [][ ( /\ maxDurationMsRef > 0
          /\ maxDurationMsRef = (clipLen \div 1000) * 1000
          /\ report'.src = "guard" )
        => audioTime >= clipLen - EndBufferMs ]_vars

----------------------------------------------------------------------------
(* Claims about the Playback screen, checked under SpecPlayback *)

\* C24: pressing play on playback that was paused at a position p > 0
\* continues from p: the position is not reset and the source is not
\* loaded again.
C24_PlayAfterPauseContinues ==
    [][ ( /\ (HandlePlayPause \/ NativeHandlePlayPause)
          /\ ~isPlaying /\ audioLoaded /\ audioPaused /\ audioTime > 0 )
        => (audioTime' = audioTime /\ ~metaPending') ]_vars

\* C29: in useAudioRecorder at most one seconds-counter interval is active
\* at any time and none while paused or stopped, for any sequence of
\* startRecording / pauseRecording / resumeRecording / stopRecording calls
\* on the mounted component.
C29_AtMostOneTimer ==
    arMounted =>
        /\ timers <= 1
        /\ (arIsPaused \/ ~arIsRecording) => timers = 0

----------------------------------------------------------------------------
(* Claims about the store's recordings list, checked under SpecStore and    *)
(* SpecPlaybackStore                                                       *)

\* No load, save, write or delete is in flight.
StoreQuiescent ==
    /\ loadPc = "idle" /\ savePc = "idle" /\ delPc = "idle"
    /\ writes = <<>>

\* C26: for every interleaving of an in-flight loadRecordingsFromStorage
\* with addRecording or deleteRecording, once all have completed the
\* in-memory list holds every added recording that was not deleted and no
\* deleted one; a load that finishes late does not undo the change.
C26_LateLoadKeepsChanges ==
    StoreQuiescent =>
        /\ \A id \in added \ deleted : InList(id, recordings)
        /\ \A id \in deleted : ~InList(id, recordings)

\* C27: a persisted recording stays in storage until deleteRecording is
\* called for its id: the whole-list rewrite fired by addRecording or
\* updateRecording removes none, even from a list not yet loaded.
C27_RewriteKeepsPersisted ==
    [][ WriteCommit =>
          \A id \in Ids :
              InList(id, persisted) /\ ~InList(id, persisted')
                  => id \in deleteCalled ]_vars

\* a step of deleteRecording
DeleteStep ==
    \/ \E id \in Ids : DeleteStart(id)
    \/ DeleteRead \/ DeleteWrite \/ DeleteFile \/ DeleteSettle

\* C28: when the storage layer fails to delete a recording, the store's
\* deleteRecording leaves the in-memory list unchanged and the error
\* reaches the caller; deleteRecording removes a recording from the list
\* only after its storage deletion succeeded.
C28_DeleteFailureKeepsList ==
    [][ /\ (DeleteSettle /\ delPc = "failed")
            => recordings' = recordings /\ deleteError'
        /\ \A id \in Ids :
              (DeleteStep /\ InList(id, recordings)
                          /\ ~InList(id, recordings'))
                  => delPc = "ok" /\ id = delId ]_vars

\* C28 witness: a deleteRecording whose storage deletion failed has
\* settled: the error was thrown and the recording is still in the list.
C28_Witness ==
    /\ delPc = "idle" /\ deleteError
    /\ delId \in deleteCalled \ deleted
    /\ InList(delId, recordings)

----------------------------------------------------------------------------
(* Claims about the store's control callbacks, checked under SpecCallbacks *)

\* C30: tearing down one screen's callbacks does not remove the other's:
\* while the Playback screen is mounted with its callbacks registered,
\* onPlaybackPlayPause and onPlaybackStop are defined whenever the Recording
\* screen's cleanup runs, and the same for the Recording screen's callbacks.
C30_CleanupKeepsOtherCallbacks ==
    /\ (playHandlers > 0 /\ playEffect > 0)
           => onPlaybackPlayPause # 0 /\ onPlaybackStop # 0
    /\ (recHandlers > 0 /\ recEffect > 0)
           => onRecordingPauseResume # 0 /\ onRecordingStop # 0

============================================================================
